---------------------------- MODULE Spec2Model ----------------------------
(***************************************************************************)
(* Model of get_coreset_idx_randomp (src/indad/utils.py, lines 29-73):     *)
(* a sparse random projection of the feature matrix followed by the greedy *)
(* farthest-point (k-center) selection loop.                               *)
(*                                                                         *)
(* Representation.                                                         *)
(*  - The feature matrix z_feat is a sequence of rows, each row a pair of  *)
(*    integers (two features).                                             *)
(*  - SparseRandomProjection draws a fresh random matrix on every fit      *)
(*    (random_state is left at None).  Its entries are -c, 0 or +c for one *)
(*    positive constant c; the model keeps one component and writes the    *)
(*    entries in units of c, so a draw is a pair over {-1, 0, 1} and the   *)
(*    working matrix z_lib is a sequence of integers (in units of c).      *)
(*  - With one component the L2 norm over dim=1 of z_lib - last_item is    *)
(*    the absolute value of the difference, an exact integer.              *)
(*  - Row indices are 0-based as in the source; TLA+ sequences are 1-based,*)
(*    so row i of the source is z_lib[i + 1].                              *)
(***************************************************************************)
EXTENDS Integers, Sequences, FiniteSets

\* Largest number of rows of an enumerated feature matrix.
MaxRows == 3
\* Largest coordinate of an enumerated feature row.
MaxCoord == 1

VARIABLES z_feat, n, pc, z_lib, select_idx, last_item, coreset_idx,
          min_distances, it, calls, first_result

vars == <<z_feat, n, pc, z_lib, select_idx, last_item, coreset_idx,
          min_distances, it, calls, first_result>>

-----------------------------------------------------------------------------
(* Inputs *)

FeatureRows == (0..MaxCoord) \X (0..MaxCoord)

\* The two scenarios of the design document, as feature rows (x, 0).
Scenarios ==
    { << <<0, 0>>, <<1, 0>>, <<2, 0>>, <<5, 0>>, <<9, 0>> >>,
      << <<0, 0>>, <<5, 0>>, <<5, 0>> >> }

FeatureMatrices ==
    UNION { [1..k -> FeatureRows] : k \in 0..MaxRows } \cup Scenarios

\* Entries of one row of the random projection matrix, in units of c.
Components == {-1, 0, 1} \X {-1, 0, 1}

-----------------------------------------------------------------------------
(* Tensor primitives *)

Abs(x) == IF x < 0 THEN -x ELSE x

\* transformer.fit_transform(z_lib) for the drawn components r.
fit_transform(X, r) == [i \in 1..Len(X) |-> r[1] * X[i][1] + r[2] * X[i][2]]

\* z[idx:idx+1]: a slice, empty when idx is past the end.
slice(z, idx) == IF idx + 1 \in 1..Len(z) THEN <<z[idx + 1]>> ELSE <<>>

\* A norm that drops the absolute value: the signed difference.
linalg_norm_signed(z, last) == [i \in 1..Len(z) |-> z[i] - last[1]]

\* torch.linalg.norm(z - last, dim=1, keepdims=True), last a one-row slice
\* broadcast over the rows of z.
linalg_norm(z, last) == [i \in 1..Len(z) |-> Abs(z[i] - last[1])]

\* An update that keeps only the distance to the latest centre.
minimum_latest(a, b) == a

\* An update that takes the elementwise maximum.
maximum(a, b) == [i \in 1..Len(a) |-> IF a[i] >= b[i] THEN a[i] ELSE b[i]]

\* torch.minimum(a, b), elementwise.
minimum(a, b) == [i \in 1..Len(a) |-> IF a[i] <= b[i] THEN a[i] ELSE b[i]]

\* An arg-max that returns the last maximal value's index.
argmax_last(v) ==
    CHOOSE i \in 0..(Len(v) - 1) :
        /\ \A j \in 0..(Len(v) - 1) : v[j + 1] <= v[i + 1]
        /\ \A j \in (i + 1)..(Len(v) - 1) : v[j + 1] < v[i + 1]

\* torch.argmax(v): the 0-based index of the first maximal value.
argmax(v) ==
    CHOOSE i \in 0..(Len(v) - 1) :
        /\ \A j \in 0..(Len(v) - 1) : v[j + 1] <= v[i + 1]
        /\ \A j \in 0..(i - 1) : v[j + 1] < v[i + 1]

\* Bookkeeping that leaves the selected entry as it is.
set_zero_skipped(v, idx) == v

\* v[idx] = 0
set_zero(v, idx) == [i \in 1..Len(v) |-> IF i = idx + 1 THEN 0 ELSE v[i]]

\* A loop that runs once too often: range(n).
loop_range_n(m) == 0..(m - 1)

\* range(n - 1): the loop counter values 0 .. n-2.
loop_range(m) == 0..(m - 2)

\* A seed taken from the end of the matrix.
seed_idx_last == Len(z_lib) - 1

\* select_idx = 0 (line 49)
seed_idx == 0

-----------------------------------------------------------------------------
(* State machine *)

Init ==
    /\ z_feat \in FeatureMatrices
    /\ n \in 0..(Len(z_feat) + 1)
    /\ pc = "start"
    /\ z_lib = <<>>
    /\ select_idx = 0
    /\ last_item = <<>>
    /\ coreset_idx = <<>>
    /\ min_distances = <<>>
    /\ it = 0
    /\ calls = 1
    /\ first_result = <<>>

\* Lines 44-47 on an empty matrix: the fit rejects an input without samples.
FitRaises ==
    /\ pc = "start"
    /\ Len(z_feat) = 0
    /\ pc' = "error"
    /\ UNCHANGED <<z_feat, n, z_lib, select_idx, last_item, coreset_idx,
                   min_distances, it, calls, first_result>>

\* Lines 44-47: a fresh random projection is fit and applied (the feature
\* dimension is taken to admit the target dimension the fit derives).
Fit ==
    /\ pc = "start"
    /\ Len(z_feat) > 0
    /\ \E r \in Components : z_lib' = fit_transform(z_feat, r)
    /\ pc' = "seed"
    /\ UNCHANGED <<z_feat, n, select_idx, last_item, coreset_idx,
                   min_distances, it, calls, first_result>>

\* Lines 49-60: the seed and the initial min-distance vector (the move to
\* the accelerator changes no value).
Seed ==
    /\ pc = "seed"
    /\ select_idx' = seed_idx
    /\ last_item' = slice(z_lib, seed_idx)
    /\ coreset_idx' = <<seed_idx>>
    /\ min_distances' = linalg_norm(z_lib, slice(z_lib, seed_idx))
    /\ it' = 0
    /\ pc' = "loop"
    /\ UNCHANGED <<z_feat, n, z_lib, calls, first_result>>

\* Lines 62-65: the loop test, the broadcast distance and the elementwise min.
Update ==
    /\ pc = "loop"
    /\ it \in loop_range(n)
    /\ min_distances' = minimum(linalg_norm(z_lib, last_item), min_distances)
    /\ pc' = "select"
    /\ UNCHANGED <<z_feat, n, z_lib, select_idx, last_item, coreset_idx, it,
                   calls, first_result>>

\* Lines 66-71: selection and bookkeeping, then the next loop counter.
Select ==
    /\ pc = "select"
    /\ select_idx' = argmax(min_distances)
    /\ last_item' = slice(z_lib, select_idx')
    /\ min_distances' = set_zero(min_distances, select_idx')
    /\ coreset_idx' = Append(coreset_idx, select_idx')
    /\ it' = it + 1
    /\ pc' = "loop"
    /\ UNCHANGED <<z_feat, n, z_lib, calls, first_result>>

\* Line 73: the loop is exhausted and the stacked indices are returned.
Return ==
    /\ pc = "loop"
    /\ it \notin loop_range(n)
    /\ pc' = "done"
    /\ UNCHANGED <<z_feat, n, z_lib, select_idx, last_item, coreset_idx,
                   min_distances, it, calls, first_result>>

\* A second call of the entry point with the same arguments.
CallAgain ==
    /\ pc = "done"
    /\ calls = 1
    /\ calls' = 2
    /\ first_result' = coreset_idx
    /\ pc' = "start"
    /\ z_lib' = <<>>
    /\ select_idx' = 0
    /\ last_item' = <<>>
    /\ coreset_idx' = <<>>
    /\ min_distances' = <<>>
    /\ it' = 0
    /\ UNCHANGED <<z_feat, n>>

Next == FitRaises \/ Fit \/ Seed \/ Update \/ Select \/ Return

Spec == Init /\ [][Next]_vars

NextRepeat == Next \/ CallAgain

SpecRepeat == Init /\ [][NextRepeat]_vars

-----------------------------------------------------------------------------
(* The selector as a function of the working matrix and the size *)

\* A tensor value in normal form (the same sequence, fully evaluated).
tensor(v) == SubSeq(v, 1, Len(v))

\* One pass of the loop body (lines 63-71) over the selector's locals.
loop_body(z, st) ==
    LET md == tensor(minimum(linalg_norm(z, st.last_item), st.min_distances))
        s  == argmax(md)
    IN  [last_item     |-> slice(z, s),
         min_distances |-> tensor(set_zero(md, s)),
         coreset_idx   |-> Append(st.coreset_idx, s)]

RECURSIVE iterate(_, _, _)
iterate(z, st, k) == IF k = 0 THEN st ELSE iterate(z, loop_body(z, st), k - 1)

\* Lines 49-73 on the working matrix z with size m: the returned indices.
selector(z, m) ==
    iterate(z,
            [last_item     |-> slice(z, seed_idx),
             min_distances |-> linalg_norm(z, slice(z, seed_idx)),
             coreset_idx   |-> <<seed_idx>>],
            Cardinality(loop_range(m))).coreset_idx

-----------------------------------------------------------------------------
(* Vocabulary of the properties *)

NTotal == Len(z_feat)

Rows == 0..(Len(z_lib) - 1)

SetMin(S) == CHOOSE x \in S : \A y \in S : x <= y

SetMax(S) == CHOOSE x \in S : \A y \in S : y <= x

\* The indices among the first k entries of the coreset index sequence.
Selected(k) == {coreset_idx[j] : j \in 1..k}

\* Brute force: the distance from row i to the nearest row of the set C.
NearestDist(C, i) == SetMin({Abs(z_lib[i + 1] - z_lib[c + 1]) : c \in C})

\* The covering radius of the set C of rows.
CoverRadius(C) == SetMax({NearestDist(C, i) : i \in Rows})

\* The smallest covering radius of any set of k rows.
OptRadius(k) ==
    SetMin({CoverRadius(C) : C \in {D \in SUBSET Rows : Cardinality(D) = k}})

InLoop == pc \in {"loop", "select", "done"}

\* A selection step takes a row of maximal value, the lowest such index.
LowestMaximalSelected ==
    (pc = "select") =>
        /\ min_distances[select_idx' + 1] =
               SetMax({min_distances[i + 1] : i \in Rows})
        /\ \A i \in Rows :
               (min_distances[i + 1] = min_distances[select_idx' + 1])
                   => (select_idx' <= i)

\* A step of the loop leaves no entry larger than it was.
NeverIncreases ==
    (pc \in {"loop", "select"}) =>
        (\A i \in Rows : min_distances'[i + 1] <= min_distances[i + 1])

-----------------------------------------------------------------------------
(* Claims *)

\* C1: for 1 <= n <= n_total the returned sequence has exactly n entries,
\* every entry lies in [0, n_total), and no index occurs twice.
C1_DistinctInRange ==
    (pc = "done" /\ n \in 1..NTotal) =>
        /\ Len(coreset_idx) = n
        /\ \A k \in 1..Len(coreset_idx) : coreset_idx[k] \in 0..(NTotal - 1)
        /\ \A j, k \in 1..Len(coreset_idx) :
               j # k => coreset_idx[j] # coreset_idx[k]

\* C2: a call with n outside [1, n_total] or with an empty matrix ends in an
\* error before any selection iteration runs and never returns a sequence.
C2_InvalidArgumentRaises ==
    (n \notin 1..NTotal \/ NTotal = 0) => pc \notin {"select", "done"}

\* C3: for 1 <= m <= n <= n_total the first m entries of the output for
\* size n are, entry by entry, the output for size m on the same working
\* matrix.
C3_Prefix ==
    (pc = "done" /\ n \in 1..NTotal) =>
        \A m \in 1..n : SubSeq(coreset_idx, 1, m) = selector(z_lib, m)

\* C3 witness: a run of size 3 over three distinct working rows has returned.
C3_Witness ==
    /\ pc = "done"
    /\ n = 3
    /\ Len(coreset_idx) = 3
    /\ Cardinality({z_lib[i] : i \in 1..Len(z_lib)}) >= 3

\* C4: two calls with the identical feature matrix, n and eps return
\* identical index sequences.
C4_Deterministic ==
    (calls = 2 /\ pc = "done") => coreset_idx = first_result

\* C5: when several rows share the maximum of the updated min-distance
\* vector the lowest index among them is selected; the working rows
\* {0, 5, 5} with n = 2 give [0, 1].
C5_TieBreak ==
    /\ [][LowestMaximalSelected]_vars
    /\ []((pc = "done" /\ z_lib = <<0, 5, 5>> /\ n = 2)
              => coreset_idx = <<0, 1>>)

\* C5 witness: the tie of the scenario was met and index 1 was selected.
C5_Witness ==
    /\ pc = "done"
    /\ z_lib = <<0, 5, 5>>
    /\ n = 2
    /\ coreset_idx = <<0, 1>>

\* C6: the first entry of the output is index 0 whatever the matrix holds,
\* and for n = 1 the output is [0] with no selection iteration executed.
C6_Seed ==
    /\ InLoop => coreset_idx[1] = 0
    /\ (pc = "done" /\ n = 1) => (coreset_idx = <<0>> /\ it = 0)

\* C6 witness: a call with n = 1 has returned although row 0 is not the
\* only row, and another row differs from it.
C6_Witness ==
    /\ pc = "done"
    /\ n = 1
    /\ \E i \in Rows : z_lib[i + 1] # z_lib[1]

\* C7: for valid n the covering radius of the returned set is at most twice
\* the smallest covering radius of any set of n rows.
C7_TwoApprox ==
    (pc = "done" /\ n \in 1..NTotal) =>
        CoverRadius(Selected(Len(coreset_idx))) <= 2 * OptRadius(n)

\* C7 witness: the greedy result is strictly worse than the optimum.
C7_Witness ==
    /\ pc = "done"
    /\ n \in 1..NTotal
    /\ CoverRadius(Selected(Len(coreset_idx))) > OptRadius(n)

\* C8 as stated: at the end of every iteration every entry of the
\* min-distance vector is the distance from its row to the nearest row of
\* the coreset index sequence at that point.
C8_EndOfIteration ==
    (pc = "loop" /\ it >= 1) =>
        \A i \in Rows :
            min_distances[i + 1] = NearestDist(Selected(Len(coreset_idx)), i)

\* C8 amended: at the end of every iteration the entry of the row selected
\* in that iteration is zero, and every other entry is the distance from its
\* row to the nearest row selected before that iteration's selection.
C8_EndOfIterationLagging ==
    (pc = "loop" /\ it >= 1) =>
        \A i \in Rows :
            min_distances[i + 1] =
                IF i = coreset_idx[Len(coreset_idx)]
                THEN 0
                ELSE NearestDist(Selected(Len(coreset_idx) - 1), i)

\* C8 witness: an iteration has ended and some entry is larger than the
\* distance to the nearest row of the whole sequence.
C8_Witness ==
    /\ pc = "loop"
    /\ it >= 1
    /\ \E i \in Rows :
           min_distances[i + 1] > NearestDist(Selected(Len(coreset_idx)), i)

\* C9: no step of the loop increases an entry of the min-distance vector,
\* and the entry of every index in the coreset sequence is zero from the
\* step that selected it onward.
C9_Monotone ==
    /\ [][NeverIncreases]_vars
    /\ [](InLoop =>
            \A k \in 1..Len(coreset_idx) : min_distances[coreset_idx[k] + 1] = 0)

\* C9 witness: the elementwise minimum has lowered an entry below its
\* initial value without zeroing it, two selections in.
C9_Witness ==
    /\ pc = "select"
    /\ it >= 1
    /\ \E i \in Rows :
           /\ min_distances[i + 1] > 0
           /\ min_distances[i + 1] < Abs(z_lib[i + 1] - z_lib[1])

\* C10: every entry of the output after the first is a row whose distance
\* to the nearest earlier-selected row is the maximum of that quantity over
\* all rows; the working rows {0, 1, 2, 5, 9} with n = 3 give [0, 4, 3],
\* with the vector [0,1,2,5,9] when index 4 is chosen and [0,1,2,4,0] when
\* index 3 is chosen.
C10_Farthest ==
    /\ (pc = "done") =>
           \A k \in 2..Len(coreset_idx) :
               NearestDist(Selected(k - 1), coreset_idx[k]) =
                   SetMax({NearestDist(Selected(k - 1), i) : i \in Rows})
    /\ (z_lib = <<0, 1, 2, 5, 9>> /\ n = 3) =>
           /\ (pc = "select" /\ it = 0) => min_distances = <<0, 1, 2, 5, 9>>
           /\ (pc = "select" /\ it = 1) => min_distances = <<0, 1, 2, 4, 0>>
           /\ (pc = "done") => coreset_idx = <<0, 4, 3>>

\* C10 witness: the scenario has run to its end.
C10_Witness ==
    /\ pc = "done"
    /\ z_lib = <<0, 1, 2, 5, 9>>
    /\ n = 3
    /\ coreset_idx = <<0, 4, 3>>

=============================================================================
